---- MODULE Spec2Model ----
(***************************************************************************)
(* Wrought Iron: the data-integrity and versioning core.                   *)
(*                                                                         *)
(* The model follows src/source/src/wrought_iron/cli/audit.py: the         *)
(* `snapshot` and `rollback` commands, statement by statement, over one    *)
(* SQLite database, and the fingerprint computed by `hash-create` and      *)
(* `hash-verify`; and `drift-check` of cli/ops.py.                         *)
(*                                                                         *)
(* Specifications:                                                         *)
(*   Spec        snapshot and rollback between row mutations;              *)
(*   HashSpec    hash-create between mutations of rows and schema;         *)
(*   VerifySpec  hash-create and hash-verify between mutations;            *)
(*   DriftSpec   snapshot and drift-check between mutations;               *)
(*   ReadSpec    hash-create, hash-verify and drift-check of two callers,  *)
(*               their statements interleaved;                             *)
(*   KeySpec     hash-create over a table with a composite key;            *)
(*   ColumnSpec  snapshot and drift-check between changes of the columns;  *)
(*   ListSpec    snapshots under two names and their listing;              *)
(*   PairSpec    snapshot, rollback and drift-check of two tables.         *)
(*                                                                         *)
(* Storage semantics (Python's sqlite3 module, default isolation level):   *)
(*   - a DDL statement (CREATE TABLE, CREATE TABLE .. AS SELECT, DROP      *)
(*     TABLE) opens no transaction: it is committed as soon as it returns; *)
(*   - an INSERT opens a transaction implicitly; it is committed when the  *)
(*     `with sqlite3.connect(..) as con` block ends normally and rolled    *)
(*     back when the block ends by an exception;                           *)
(*   - CREATE TABLE x AS SELECT * FROM y copies the rows of y in scan      *)
(*     order and gives x the column names of y with the type names of      *)
(*     their affinities and no constraint (no PRIMARY KEY, no NOT NULL).   *)
(* So `db` and `catalog` below are the committed state of the database,    *)
(* the state any other connection reads and the state that survives the    *)
(* death of the process; `txn` is the open transaction of the command.     *)
(***************************************************************************)
EXTENDS Integers, Sequences, FiniteSets, TLC

VARIABLES
    db,       \* the tables of the database: table name -> [cols, rows]
    catalog,  \* the table _wi_snapshots: [exists, rows]
    txn,      \* rows inserted in the open transaction, not committed yet
    op,       \* the command in flight, or the last one with its outcome
    origin,   \* history: snapshot table -> the source table as it was when copied
    calls     \* the read-only commands of concurrent callers: caller -> its state

vars == <<db, catalog, txn, op, origin, calls>>

-----------------------------------------------------------------------------
(* Bounds and input sets *)

MaxRows == 2

Tables == {"orders"}
Names == {"pre"}
\* key values and data values of the inserted rows
Values == {1, 2}

\* NULL is written 0: it sorts before every other value, as SQLite's NULL
\* does under ORDER BY .. ASC, and two NULLs tie
IsNull(v) == v = 0
NullableValues == {0} \cup Values

\* The declared schemas a dataset starts with: each column is
\* [name, type, pk] with pk the 1-based rank of the column in the primary
\* key (PRAGMA table_info's sixth field), 0 when it is not part of it.
Col(n, ty, k) == [name |-> n, type |-> ty, pk |-> k]

\* orders(id INTEGER PRIMARY KEY, total REAL), the scenario of the spec
SchemaPkFirst == <<Col("id", "INTEGER", 1), Col("total", "REAL", 0)>>
\* orders(total REAL, id INTEGER PRIMARY KEY)
SchemaPkLast == <<Col("total", "REAL", 0), Col("id", "INTEGER", 1)>>
\* orders(id INT, total REAL): no key, the form CREATE TABLE AS writes
SchemaNoPk == <<Col("id", "INT", 0), Col("total", "REAL", 0)>>

Schemas == {SchemaPkFirst, SchemaPkLast, SchemaNoPk}

\* orders(id INT PRIMARY KEY, total REAL): the key is not the rowid, and a
\* key that is not the rowid admits NULL, in any number of rows
SchemaPkInt == <<Col("id", "INT", 1), Col("total", "REAL", 0)>>

\* the table with the composite key PRIMARY KEY (total, id): table_info
\* gives each column its rank in the key
SchemaPkPair == <<Col("id", "INTEGER", 2), Col("total", "REAL", 1)>>

-----------------------------------------------------------------------------
(* The storage engine: what the SQL statements of the commands do *)

\* f"_snapshot_{name}_{table_name}" (audit.py:345, 388)
SnapshotTableName(name, table_name) == "_snapshot_" \o name \o "_" \o table_name

Indexes(seq) == 1..Len(seq)

\* the positions of the primary-key columns, in the order of the columns
PkIndexes(cols) == { i \in Indexes(cols) : cols[i].pk > 0 }

\* the set S of positions as an ascending sequence
RECURSIVE Ascending(_)
Ascending(S) ==
    IF S = {} THEN <<>>
    ELSE LET m == CHOOSE x \in S : \A y \in S : x <= y
         IN  <<m>> \o Ascending(S \ {m})

\* a sequence, the last element first
RECURSIVE Reverse(_)
Reverse(seq) == IF seq = <<>> THEN <<>> ELSE Reverse(Tail(seq)) \o <<Head(seq)>>

\* SQLite's comparison of two stored values (integers and NULL here),
\* ascending: the NULLs first
SqlLess(a, b) == a < b

\* row r1 sorts strictly before row r2 under ORDER BY keys (column positions)
RECURSIVE RowLess(_, _, _)
RowLess(r1, r2, keys) ==
    IF keys = <<>> THEN FALSE
    ELSE LET k == Head(keys)
         IN  IF SqlLess(r1[k], r2[k]) THEN TRUE
             ELSE IF SqlLess(r2[k], r1[k]) THEN FALSE
             ELSE RowLess(r1, r2, Tail(keys))

\* r put into the sorted sequence, after the rows it ties with
RECURSIVE InsertSorted(_, _, _)
InsertSorted(r, sorted, keys) ==
    IF sorted = <<>> THEN <<r>>
    ELSE IF RowLess(r, Head(sorted), keys) THEN <<r>> \o sorted
    ELSE <<Head(sorted)>> \o InsertSorted(r, Tail(sorted), keys)

\* SELECT .. ORDER BY keys over rows in scan order: rows that tie on the
\* keys come out in scan order
RECURSIVE OrderBy(_, _)
OrderBy(rows, keys) ==
    IF rows = <<>> THEN <<>>
    ELSE InsertSorted(rows[Len(rows)], OrderBy(SubSeq(rows, 1, Len(rows) - 1), keys), keys)

\* A single INTEGER PRIMARY KEY column is the rowid of the table: a scan
\* returns the rows in the order of that column, else in insertion order.
RowidAlias(cols) ==
    /\ Cardinality(PkIndexes(cols)) = 1
    /\ \A i \in PkIndexes(cols) : cols[i].type = "INTEGER"

ScanOrder(cols, rows) ==
    IF RowidAlias(cols) THEN OrderBy(rows, Ascending(PkIndexes(cols))) ELSE rows

\* the PRIMARY KEY constraint: no two rows agree on every key column; a
\* NULL key agrees with no key, another NULL included
PkUnique(cols, rows) ==
    \/ PkIndexes(cols) = {}
    \/ \A i, j \in Indexes(rows) :
          i # j => \E k \in PkIndexes(cols) :
                      IsNull(rows[i][k]) \/ rows[i][k] # rows[j][k]

\* what else the engine asks of the rows of a table: one value per column,
\* and no NULL in the rowid
RowsFit(cols, rows) ==
    \A i \in Indexes(rows) :
        /\ Len(rows[i]) = Len(cols)
        /\ RowidAlias(cols) => \A k \in PkIndexes(cols) : ~IsNull(rows[i][k])

\* ALTER TABLE .. ADD COLUMN name type: the column comes last, NULL in
\* every row
AddedColumn(tbl, name, ty) ==
    [cols |-> Append(tbl.cols, Col(name, ty, 0)),
     rows |-> [i \in Indexes(tbl.rows) |-> Append(tbl.rows[i], 0)]]

\* the type name CREATE TABLE AS gives a column: that of its affinity
AffinityType(ty) ==
    CASE ty \in {"INTEGER", "INT"} -> "INT"
      [] ty = "REAL" -> "REAL"
      [] ty = "TEXT" -> "TEXT"
      [] OTHER -> "NUM"

\* Faulty variant of CreateTableAsSelect: the columns are copied and the
\* rows are not (CREATE TABLE x AS SELECT * FROM src WHERE 0).
CreateTableAsSelect_SchemaOnly(src) ==
    [cols |-> [i \in Indexes(src.cols) |->
                  Col(src.cols[i].name, AffinityType(src.cols[i].type), 0)],
     rows |-> <<>>]

\* CREATE TABLE x AS SELECT * FROM src (audit.py:356, 408): the rows of src
\* in scan order; the column names of src, no key and no constraint
CreateTableAsSelect(src) ==
    [cols |-> [i \in Indexes(src.cols) |->
                  Col(src.cols[i].name, AffinityType(src.cols[i].type), 0)],
     rows |-> src.rows]

\* SELECT sql FROM sqlite_master WHERE name = table_name (audit.py:235): the
\* text of the statement that made the table, as the sequence of its words
RECURSIVE ColumnDefs(_)
ColumnDefs(cols) ==
    IF cols = <<>> THEN <<>>
    ELSE LET c == Head(cols)
         IN  <<c.name, c.type>>
             \o (IF c.pk > 0 THEN <<"PRIMARY KEY", ToString(c.pk)>> ELSE <<>>)
             \o <<",">> \o ColumnDefs(Tail(cols))

Ddl(table_name, tbl) == <<"CREATE TABLE", table_name, "(">> \o ColumnDefs(tbl.cols) \o <<")">>

-----------------------------------------------------------------------------
(* The fingerprint: hash-create and hash-verify (audit.py:128-255) *)

\* The digest of a byte stream under an algorithm. The hash is taken to be
\* collision free: the digest stands for the algorithm and the bytes fed
\* to it, in order. "failed" is the command ending by typer.Exit(1) with
\* no digest.
Digest(algo, stream) == [algo |-> algo, stream |-> stream]
Failed == [algo |-> "failed", stream |-> <<>>]

\* query_cols: the positions of the columns not excluded, in column order
QueryCols(cols, exclude) ==
    Ascending({ i \in Indexes(cols) : cols[i].name \notin exclude })

\* order_by (audit.py:170, 241): the key columns in the order of the
\* columns when the table has a key, else the selected columns
OrderByCols(cols, exclude) ==
    IF PkIndexes(cols) # {} THEN Ascending(PkIndexes(cols))
    ELSE QueryCols(cols, exclude)

\* pandas' text of one value: a float64 column prints floats, an int64
\* column integers, and NULL (None, NaN) prints null
ValueJson(ty, v) ==
    IF IsNull(v) THEN "null"
    ELSE IF ty = "REAL" THEN ToString(v) \o ".0" ELSE ToString(v)

\* the dtypes pandas gives the columns of one chunk: a column of REAL
\* affinity is float64, and so is a column of integers with a NULL among
\* the rows of the chunk (NULL reads as NaN)
ChunkDtypes(cols, rows) ==
    [k \in Indexes(cols) |->
        IF \E i \in Indexes(rows) : IsNull(rows[i][k])
        THEN [cols[k] EXCEPT !.type = "REAL"]
        ELSE cols[k]]

RECURSIVE RowJson(_, _, _)
RowJson(cols, row, qcols) ==
    IF qcols = <<>> THEN <<>>
    ELSE <<ValueJson(cols[Head(qcols)].type, row[Head(qcols)])>>
         \o RowJson(cols, row, Tail(qcols))

RECURSIVE DataJson(_, _, _)
DataJson(cols, rows, qcols) ==
    IF rows = <<>> THEN <<>>
    ELSE <<"[">> \o RowJson(cols, Head(rows), qcols) \o <<"]">>
         \o DataJson(cols, Tail(rows), qcols)

\* chunk.to_json(orient='split', date_format='iso') (audit.py:180, 246):
\* the column names, the index of the chunk (0 .. n-1, each chunk is a
\* new DataFrame) and the rows
ChunkJson(cols, rows, qcols) ==
    <<"{columns:">> \o [i \in Indexes(qcols) |-> cols[qcols[i]].name]
    \o <<"index:">> \o [i \in Indexes(rows) |-> ToString(i - 1)]
    \o <<"data:">> \o DataJson(ChunkDtypes(cols, rows), rows, qcols) \o <<"}">>

\* pd.read_sql_query(query, con, chunksize=chunk_size) (audit.py:175, 245):
\* the JSON of each chunk of chunk_size rows, one after the other; a query
\* with no row yields one empty chunk
RECURSIVE ChunksJson(_, _, _, _)
ChunksJson(cols, rows, qcols, chunk_size) ==
    IF Len(rows) <= chunk_size THEN ChunkJson(cols, rows, qcols)
    ELSE ChunkJson(cols, SubSeq(rows, 1, chunk_size), qcols)
         \o ChunksJson(cols, SubSeq(rows, chunk_size + 1, Len(rows)), qcols, chunk_size)

\* the bytes of the rows: SELECT query_cols FROM table ORDER BY order_by,
\* chunked and serialized (audit.py:163-181, 239-247)
RowStream(tbl, exclude, chunk_size) ==
    ChunksJson(tbl.cols,
               OrderBy(tbl.rows, OrderByCols(tbl.cols, exclude)),
               QueryCols(tbl.cols, exclude),
               chunk_size)

\* Faulty variant of hash_create: the salt is not fed to the hash.
hash_create_Unsalted(d, table_name, algo, salt, exclude, chunk_size) ==
    IF table_name \notin DOMAIN d THEN Failed
    ELSE IF QueryCols(d[table_name].cols, exclude) = <<>> THEN Failed
    ELSE Digest(algo, RowStream(d[table_name], exclude, chunk_size))

\* hash_create (audit.py:128-189) on database d: the salt, then the rows.
\* A missing table, and a query that selects no column, end the command
\* with no digest.
hash_create(d, table_name, algo, salt, exclude, chunk_size) ==
    IF table_name \notin DOMAIN d THEN Failed
    ELSE IF QueryCols(d[table_name].cols, exclude) = <<>> THEN Failed
    ELSE Digest(algo, salt \o RowStream(d[table_name], exclude, chunk_size))

\* calculated_hash of hash_verify (audit.py:191-253): the salt, the DDL of
\* the table under --strict, then the rows
calculated_hash(d, table_name, algo, salt, exclude, chunk_size, strict) ==
    IF table_name \notin DOMAIN d THEN Failed
    ELSE IF QueryCols(d[table_name].cols, exclude) = <<>> THEN Failed
    ELSE Digest(algo,
                salt
                \o (IF strict THEN Ddl(table_name, d[table_name]) ELSE <<>>)
                \o RowStream(d[table_name], exclude, chunk_size))

\* h.hexdigest(): the digest as hexadecimal text, of 64 characters under
\* sha256 and of 128 under sha512 (audit.py:206, 209)
Sha256HexLen == 64
Sha512HexLen == 128

HexLen(algo) == IF algo = "sha256" THEN Sha256HexLen ELSE Sha512HexLen

\* A hexadecimal text: the first `len` characters of the text of `digest`.
HexText(digest, len) == [digest |-> digest, len |-> len]
hexdigest(digest) == HexText(digest, HexLen(digest.algo))

\* Faulty variant of algo_name: a text that is not 128 characters long is
\* taken for a sha256 digest.
algo_name_Default(expected_hash) ==
    IF expected_hash.len = Sha512HexLen THEN "sha512" ELSE "sha256"

\* audit.py:205-214: the algorithm hash_verify derives from the length of
\* the expected text, "invalid" when it is neither length
algo_name(expected_hash) ==
    IF expected_hash.len = Sha256HexLen THEN "sha256"
    ELSE IF expected_hash.len = Sha512HexLen THEN "sha512"
    ELSE "invalid"

-----------------------------------------------------------------------------
(* The commands *)

\* the state of a command: `pc` is the statement it executes next ("done"
\* once it has ended), `out` how it ended, `report` what a dry run printed,
\* `immediate` whether a rollback began with the table exactly as it was
\* when the snapshot was copied from it
Command(cmd, t, n, dry, pc, out) ==
    [cmd |-> cmd, table |-> t, name |-> n, dry_run |-> dry, pc |-> pc,
     out |-> out, report |-> <<>>, immediate |-> FALSE]

Running == op.pc # "done"

\* the command ends: a row inserted and not committed is rolled back when
\* the `with` block ends by an exception
Ended(out) == [op EXCEPT !.pc = "done", !.out = out]

\* the row of _wi_snapshots the command inserts (audit.py:369-372); the
\* timestamp is the wall clock, which advances from one insert to the next
CatalogRow(n, t) ==
    [name |-> n, original_table |-> t,
     snapshot_table |-> SnapshotTableName(n, t),
     timestamp |-> Len(catalog.rows) + 1, comment |-> ""]

\* the callers that run read-only commands side by side: each command is a
\* process of its own, with its own connection and its own hash object
Callers == {"a", "b"}

\* a caller that runs no command
Idle == [cmd |-> "none", pc |-> "done"]

Init ==
    /\ \E cols \in Schemas : db = [t \in Tables |-> [cols |-> cols, rows |-> <<>>]]
    /\ catalog = [exists |-> FALSE, rows |-> <<>>]
    /\ txn = <<>>
    /\ op = Command("none", "", "", FALSE, "done", "")
    /\ origin = <<>>
    /\ calls = [c \in Callers |-> Idle]

(* `wi query sql` (query.py:170-193): row mutations of a dataset, each one
   statement committed when the command ends. *)

Mutated(t, rows) ==
    /\ PkUnique(db[t].cols, rows)
    /\ RowsFit(db[t].cols, rows)
    /\ db' = [db EXCEPT ![t].rows = ScanOrder(db[t].cols, rows)]
    /\ op' = Command("sql", t, "", FALSE, "done", "ok")
    /\ UNCHANGED <<catalog, txn, origin, calls>>

InsertRow(t, row) ==
    /\ ~Running
    /\ t \in DOMAIN db
    /\ Len(db[t].rows) < MaxRows
    /\ Mutated(t, Append(db[t].rows, row))

DeleteRow(t, i) ==
    /\ ~Running
    /\ t \in DOMAIN db
    /\ i \in Indexes(db[t].rows)
    /\ Mutated(t, SubSeq(db[t].rows, 1, i - 1) \o SubSeq(db[t].rows, i + 1, Len(db[t].rows)))

UpdateCell(t, i, k, v) ==
    /\ ~Running
    /\ t \in DOMAIN db
    /\ i \in Indexes(db[t].rows)
    /\ k \in Indexes(db[t].cols)
    /\ db[t].rows[i][k] # v
    /\ Mutated(t, [db[t].rows EXCEPT ![i][k] = v])

(* `wi audit snapshot` (audit.py:337-378) *)

\* Faulty variant of Snapshot: no lookup of the snapshot table, the copy is
\* always attempted.
Snapshot_NoCheck(t, n) ==
    /\ ~Running
    /\ op' = Command("snapshot", t, n, FALSE, "copy", "")
    /\ UNCHANGED <<db, catalog, txn, origin, calls>>

\* Faulty variant of Snapshot: an existing snapshot is reported and the
\* command goes on to record it instead of ending.
Snapshot_NoExit(t, n) ==
    /\ ~Running
    /\ op' = IF SnapshotTableName(n, t) \in DOMAIN db
             THEN Command("snapshot", t, n, FALSE, "catalog", "")
             ELSE Command("snapshot", t, n, FALSE, "copy", "")
    /\ UNCHANGED <<db, catalog, txn, origin, calls>>

\* audit.py:349-354: the snapshot exists when its table does
Snapshot(t, n) ==
    /\ ~Running
    /\ op' = IF SnapshotTableName(n, t) \in DOMAIN db
             THEN Command("snapshot", t, n, FALSE, "done", "AlreadyExists")
             ELSE Command("snapshot", t, n, FALSE, "copy", "")
    /\ UNCHANGED <<db, catalog, txn, origin, calls>>

\* audit.py:356: CREATE TABLE snapshot AS SELECT * FROM table, committed
\* as it returns; it raises when the table does not exist and when the
\* snapshot table already does
SnapshotCopy ==
    /\ op.cmd = "snapshot" /\ op.pc = "copy"
    /\ LET snap == SnapshotTableName(op.name, op.table)
       IN  IF op.table \in DOMAIN db /\ snap \notin DOMAIN db
           THEN /\ db' = (snap :> CreateTableAsSelect(db[op.table])) @@ db
                /\ origin' = (snap :> [table |-> op.table, tbl |-> db[op.table]]) @@ origin
                /\ op' = [op EXCEPT !.pc = "catalog"]
           ELSE /\ op' = Ended("Error")
                /\ UNCHANGED <<db, origin>>
    /\ UNCHANGED <<catalog, txn, calls>>

\* audit.py:360-368: CREATE TABLE IF NOT EXISTS _wi_snapshots
SnapshotCatalogTable ==
    /\ op.cmd = "snapshot" /\ op.pc = "catalog"
    /\ catalog' = [catalog EXCEPT !.exists = TRUE]
    /\ op' = [op EXCEPT !.pc = "insert"]
    /\ UNCHANGED <<db, txn, origin, calls>>

\* audit.py:369-372: INSERT INTO _wi_snapshots, in a transaction
SnapshotInsert ==
    /\ op.cmd = "snapshot" /\ op.pc = "insert"
    /\ catalog.exists
    /\ txn' = Append(txn, CatalogRow(op.name, op.table))
    /\ op' = [op EXCEPT !.pc = "commit"]
    /\ UNCHANGED <<db, catalog, origin, calls>>

\* the end of the `with` block (audit.py:347): the transaction commits
SnapshotCommit ==
    /\ op.cmd = "snapshot" /\ op.pc = "commit"
    /\ catalog' = [catalog EXCEPT !.rows = catalog.rows \o txn]
    /\ txn' = <<>>
    /\ op' = Ended("ok")
    /\ UNCHANGED <<db, origin, calls>>

(* `wi audit rollback` (audit.py:380-413) *)

\* Faulty variant of Rollback: --dry-run is not looked at, the restore
\* goes ahead.
Rollback_IgnoresDryRun(t, n, dry) ==
    /\ ~Running
    /\ op' = IF SnapshotTableName(n, t) \notin DOMAIN db
             THEN Command("rollback", t, n, dry, "done", "NotFound")
             ELSE Command("rollback", t, n, dry, "drop", "")
    /\ UNCHANGED <<db, catalog, txn, origin, calls>>

\* audit.py:392-405: the snapshot is looked up by its table name; a dry
\* run counts the rows of both tables and returns
Rollback(t, n, dry) ==
    /\ ~Running
    /\ LET snap == SnapshotTableName(n, t)
       IN  op' = IF snap \notin DOMAIN db
                 THEN Command("rollback", t, n, dry, "done", "NotFound")
                 ELSE IF dry
                 THEN IF t \in DOMAIN db
                      THEN [Command("rollback", t, n, dry, "done", "ok")
                               EXCEPT !.report = <<Len(db[t].rows), Len(db[snap].rows)>>]
                      ELSE Command("rollback", t, n, dry, "done", "Error")
                 ELSE [Command("rollback", t, n, dry, "drop", "")
                          EXCEPT !.immediate =
                              /\ t \in DOMAIN db
                              /\ snap \in DOMAIN origin
                              /\ origin[snap] = [table |-> t, tbl |-> db[t]]]
    /\ UNCHANGED <<db, catalog, txn, origin, calls>>

\* Faulty variant of RollbackDrop: the snapshot table is dropped instead
\* of the table to restore.
RollbackDrop_WrongTable ==
    /\ op.cmd = "rollback" /\ op.pc = "drop"
    /\ db' = [x \in DOMAIN db \ {SnapshotTableName(op.name, op.table)} |-> db[x]]
    /\ op' = [op EXCEPT !.pc = "create"]
    /\ UNCHANGED <<catalog, txn, origin, calls>>

\* audit.py:407: DROP TABLE table, committed as it returns; it raises when
\* the table does not exist
RollbackDrop ==
    /\ op.cmd = "rollback" /\ op.pc = "drop"
    /\ IF op.table \in DOMAIN db
       THEN /\ db' = [x \in DOMAIN db \ {op.table} |-> db[x]]
            /\ op' = [op EXCEPT !.pc = "create"]
       ELSE /\ op' = Ended("Error")
            /\ UNCHANGED db
    /\ UNCHANGED <<catalog, txn, origin, calls>>

\* Faulty variant of RollbackCreate: the snapshot table is renamed to the
\* table (ALTER TABLE snapshot RENAME TO table) instead of copied.
RollbackCreate_Rename ==
    /\ op.cmd = "rollback" /\ op.pc = "create"
    /\ LET snap == SnapshotTableName(op.name, op.table)
       IN  db' = (op.table :> db[snap]) @@ [x \in DOMAIN db \ {snap} |-> db[x]]
    /\ op' = Ended("ok")
    /\ UNCHANGED <<catalog, txn, origin, calls>>

\* audit.py:408: CREATE TABLE table AS SELECT * FROM snapshot, committed
\* as it returns
RollbackCreate ==
    /\ op.cmd = "rollback" /\ op.pc = "create"
    /\ LET snap == SnapshotTableName(op.name, op.table)
       IN  IF snap \in DOMAIN db /\ op.table \notin DOMAIN db
           THEN /\ db' = (op.table :> CreateTableAsSelect(db[snap])) @@ db
                /\ op' = Ended("ok")
           ELSE /\ op' = Ended("Error")
                /\ UNCHANGED db
    /\ UNCHANGED <<catalog, txn, origin, calls>>

\* A statement raises (a storage error), or the process dies, before the
\* command's next statement: the open transaction is rolled back, the
\* statements already committed stay (audit.py:376-378, 411-413).
Fail ==
    /\ Running
    /\ txn' = <<>>
    /\ op' = Ended("Error")
    /\ UNCHANGED <<db, catalog, origin, calls>>

Next ==
    \/ \E t \in Tables, row \in [1..2 -> Values] : InsertRow(t, row)
    \/ \E t \in Tables, i \in 1..MaxRows : DeleteRow(t, i)
    \/ \E t \in Tables, i \in 1..MaxRows, k \in 1..2, v \in Values : UpdateCell(t, i, k, v)
    \/ \E t \in Tables, n \in Names : Snapshot(t, n)
    \/ SnapshotCopy
    \/ SnapshotCatalogTable
    \/ SnapshotInsert
    \/ SnapshotCommit
    \/ \E t \in Tables, n \in Names, dry \in BOOLEAN : Rollback(t, n, dry)
    \/ RollbackDrop
    \/ RollbackCreate
    \/ Fail

Spec == Init /\ [][Next]_vars

-----------------------------------------------------------------------------
(* `wi audit hash-create` and `wi audit hash-verify`, one command at a time
   over a dataset that `wi query sql` changes between the commands *)

\* the option sets of the fingerprint commands
Algos == {"sha256", "sha512"}
Salts == {<<>>, <<"k">>}
Excludes == SUBSET {"id", "total"}
ChunkSizes == {1, 2}

\* raise typer.Exit(1) (audit.py:161, 185, 214, 302)
ExitFailure == 1

\* The record of a fingerprint command that has ended: `read` is the
\* statements it ran on its connection, `fingerprint` the digest text it
\* printed (none or one), `verdict` what hash-verify reported.
HashCommand(cmd, t, algo, salt, exclude, chunk_size, strict, expected_hash) ==
    [cmd |-> cmd, table |-> t, pc |-> "done", algo |-> algo, salt |-> salt,
     exclude |-> exclude, chunk_size |-> chunk_size, strict |-> strict,
     expected |-> expected_hash, out |-> "", exit |-> 0, read |-> <<>>,
     fingerprint |-> <<>>, verdict |-> "none"]

\* hash_create (audit.py:128-189): the fingerprint is printed and returned
\* after the rows have all been read; a table not found and an error of
\* the query end the command by typer.Exit(1) before that
HashCreate(t, algo, salt, exclude, chunk_size) ==
    /\ ~Running
    /\ LET cmd == HashCommand("hash-create", t, algo, salt, exclude, chunk_size,
                              FALSE, HexText(Failed, 0))
           fingerprint == hash_create(db, t, algo, salt, exclude, chunk_size)
       IN  op' = IF t \notin DOMAIN db
                 THEN [cmd EXCEPT !.out = "NotFound", !.exit = ExitFailure,
                                  !.read = <<"table_info">>]
                 ELSE IF fingerprint = Failed
                 THEN [cmd EXCEPT !.out = "Error", !.exit = ExitFailure,
                                  !.read = <<"table_info", "select">>]
                 ELSE [cmd EXCEPT !.out = "ok",
                                  !.read = <<"table_info", "select">>,
                                  !.fingerprint = <<hexdigest(fingerprint)>>]
    /\ UNCHANGED <<db, catalog, txn, origin, calls>>

\* hash_verify (audit.py:191-302) without a report: the algorithm comes
\* from the length of the expected text; the digest calculated is compared
\* with it, and the command ends by typer.Exit(1) when they differ
HashVerify(t, expected_hash, salt, exclude, chunk_size, strict) ==
    /\ ~Running
    /\ LET algo == algo_name(expected_hash)
           cmd == HashCommand("hash-verify", t, algo, salt, exclude, chunk_size,
                              strict, expected_hash)
           calculated == calculated_hash(db, t, algo, salt, exclude, chunk_size, strict)
           read == <<"table_info">> \o (IF strict THEN <<"ddl">> ELSE <<>>)
                   \o <<"select">>
       IN  op' = IF algo = "invalid"
                 THEN [cmd EXCEPT !.out = "InvalidOptions", !.exit = ExitFailure]
                 ELSE IF t \notin DOMAIN db
                 THEN [cmd EXCEPT !.out = "NotFound", !.exit = ExitFailure,
                                  !.read = <<"table_info">>]
                 ELSE IF calculated = Failed
                 THEN [cmd EXCEPT !.out = "Error", !.exit = ExitFailure,
                                  !.read = read]
                 ELSE IF hexdigest(calculated) = expected_hash
                 THEN [cmd EXCEPT !.out = "ok", !.read = read,
                                  !.verdict = "verified"]
                 ELSE [cmd EXCEPT !.out = "Mismatch", !.exit = ExitFailure,
                                  !.read = read, !.verdict = "failed",
                                  !.fingerprint = <<hexdigest(calculated)>>]
    /\ UNCHANGED <<db, catalog, txn, origin, calls>>

\* ALTER TABLE t ADD COLUMN name ty, by `wi query sql`; it raises when the
\* table has a column of that name
AddColumn(t, name, ty) ==
    /\ ~Running
    /\ t \in DOMAIN db
    /\ \A k \in Indexes(db[t].cols) : db[t].cols[k].name # name
    /\ db' = [db EXCEPT ![t] = AddedColumn(db[t], name, ty)]
    /\ op' = Command("sql", t, "", FALSE, "done", "ok")
    /\ UNCHANGED <<catalog, txn, origin, calls>>

\* DROP TABLE t, by `wi query sql`
DropTable(t) ==
    /\ ~Running
    /\ t \in DOMAIN db
    /\ db' = [x \in DOMAIN db \ {t} |-> db[x]]
    /\ op' = Command("sql", t, "", FALSE, "done", "ok")
    /\ UNCHANGED <<catalog, txn, origin, calls>>

\* the rows `wi query sql` inserts: a key, that may be NULL, and a value
KeyedRows == { row \in [1..2 -> NullableValues] : ~IsNull(row[2]) }

HashInit ==
    /\ \E cols \in Schemas \cup {SchemaPkInt} :
          db = [t \in Tables |-> [cols |-> cols, rows |-> <<>>]]
    /\ catalog = [exists |-> FALSE, rows |-> <<>>]
    /\ txn = <<>>
    /\ op = Command("none", "", "", FALSE, "done", "")
    /\ origin = <<>>
    /\ calls = [c \in Callers |-> Idle]

HashNext ==
    \/ \E t \in Tables, row \in KeyedRows : InsertRow(t, row)
    \/ \E t \in Tables, i \in 1..MaxRows : DeleteRow(t, i)
    \/ \E t \in Tables, i \in 1..MaxRows, v \in NullableValues \cup {3} :
          UpdateCell(t, i, 1, v)
    \/ \E t \in Tables, i \in 1..MaxRows, v \in Values : UpdateCell(t, i, 2, v)
    \/ \E t \in Tables : AddColumn(t, "note", "TEXT")
    \/ \E t \in Tables, algo \in Algos, salt \in Salts, exclude \in Excludes,
          chunk_size \in ChunkSizes :
          HashCreate(t, algo, salt, exclude, chunk_size)

HashSpec == HashInit /\ [][HashNext]_vars

\* a table with a composite key, or with none, empty
KeyInit ==
    /\ \E cols \in {SchemaPkPair, SchemaNoPk} :
          db = [t \in Tables |-> [cols |-> cols, rows |-> <<>>]]
    /\ catalog = [exists |-> FALSE, rows |-> <<>>]
    /\ txn = <<>>
    /\ op = Command("none", "", "", FALSE, "done", "")
    /\ origin = <<>>
    /\ calls = [c \in Callers |-> Idle]

\* hash-create over tables with a composite key
KeySpec == KeyInit /\ [][HashNext]_vars

\* The texts a caller hands to hash-verify with given options: what
\* hash-create prints for the table as it is, under either algorithm and
\* either salt (the digest of the salt alone when it prints none), and
\* two texts of another length: one character short of a sha256 digest,
\* one character beyond a sha512 digest.
ExpectedHashes(d, t, exclude, chunk_size) ==
    { LET fingerprint == hash_create(d, t, algo, salt, exclude, chunk_size)
      IN  IF fingerprint = Failed THEN hexdigest(Digest(algo, salt))
          ELSE hexdigest(fingerprint) : algo \in Algos, salt \in Salts }
    \cup { HexText(Digest("sha256", <<>>), Sha256HexLen - 1),
           HexText(Digest("sha512", <<>>), Sha512HexLen + 1) }

VerifyNext ==
    \/ \E t \in Tables, v \in Values : InsertRow(t, <<v, v>>)
    \/ \E t \in Tables, i \in 1..MaxRows : DeleteRow(t, i)
    \/ \E t \in Tables : DropTable(t)
    \/ \E t \in Tables, algo \in Algos, salt \in Salts, exclude \in Excludes,
          chunk_size \in ChunkSizes :
          HashCreate(t, algo, salt, exclude, chunk_size)
    \/ \E t \in Tables, exclude \in Excludes, chunk_size \in ChunkSizes :
          \E expected_hash \in ExpectedHashes(db, t, exclude, chunk_size) :
              \E salt \in Salts, strict \in BOOLEAN :
                  HashVerify(t, expected_hash, salt, exclude, chunk_size, strict)

\* hash-create and hash-verify over the datasets of Init
VerifySpec == Init /\ [][VerifyNext]_vars

-----------------------------------------------------------------------------
(* `wi ops drift-check` (ops.py:350-419) *)

\* the significance levels asked for, in hundredths: --threshold 0.05 (the
\* default), 0.5 and 1.0
Thresholds == {5, 50, 100}

\* the default of --threshold (ops.py:354), in hundredths
DefaultThreshold == 5

\* series.dropna(): the values of column k of the rows, the NULLs left out
RECURSIVE dropna(_, _)
dropna(rows, k) ==
    IF rows = <<>> THEN <<>>
    ELSE (IF IsNull(Head(rows)[k]) THEN <<>> ELSE <<Head(rows)[k]>>)
         \o dropna(Tail(rows), k)

\* Faulty variant of numeric_cols: every column of the frame.
numeric_cols_All(tbl) == Ascending(Indexes(tbl.cols))

\* df.select_dtypes(include=['number']).columns: the columns pandas reads
\* as numbers, those that hold a number in some row (a column of a frame
\* with no row, and a column of NULLs only, has dtype object)
numeric_cols(tbl) ==
    Ascending({ k \in Indexes(tbl.cols) : dropna(tbl.rows, k) # <<>> })

\* the position of the column named name among cols, 0 when there is none
ColumnNamed(cols, name) ==
    IF \E k \in Indexes(cols) : cols[k].name = name
    THEN CHOOSE k \in Indexes(cols) : cols[k].name = name
    ELSE 0

Abs(x) == IF x < 0 THEN 0 - x ELSE x

\* how many values of the sample are at most v
CountLe(data, v) == Cardinality({ i \in Indexes(data) : data[i] <= v })

\* The lattice paths from (i, j) to (m, n) on which the two empirical
\* distribution functions stay less than h / (m * n) apart.
RECURSIVE PathsInside(_, _, _, _, _)
PathsInside(i, j, m, n, h) ==
    IF Abs(n * i - m * j) >= h THEN 0
    ELSE IF i = m /\ j = n THEN 1
    ELSE (IF i < m THEN PathsInside(i + 1, j, m, n, h) ELSE 0)
         + (IF j < n THEN PathsInside(i, j + 1, m, n, h) ELSE 0)

\* Faulty variant of ks_2samp: the p-value is the share of the orderings
\* whose distance stays below the statistic.
ks_2samp_Inside(data1, data2) ==
    LET m == Len(data1)
        n == Len(data2)
        pooled == { data1[i] : i \in Indexes(data1) } \cup { data2[i] : i \in Indexes(data2) }
        dist(v) == Abs(n * CountLe(data1, v) - m * CountLe(data2, v))
        h == CHOOSE d \in { dist(v) : v \in pooled } :
                 \A v \in pooled : dist(v) <= d
        total == PathsInside(0, 0, m, n, m * n + 1)
    IN  [statistic |-> [num |-> h, den |-> m * n],
         pvalue |-> [num |-> PathsInside(0, 0, m, n, h), den |-> total]]

\* scipy.stats.ks_2samp(data1, data2) on two small samples (the exact
\* method): the statistic is the largest distance between the empirical
\* distribution functions, and the p-value the share of the orderings of
\* the pooled sample whose distance is at least that. Both are fractions.
ks_2samp(data1, data2) ==
    LET m == Len(data1)
        n == Len(data2)
        pooled == { data1[i] : i \in Indexes(data1) } \cup { data2[i] : i \in Indexes(data2) }
        dist(v) == Abs(n * CountLe(data1, v) - m * CountLe(data2, v))
        h == CHOOSE d \in { dist(v) : v \in pooled } :
                 \A v \in pooled : dist(v) <= d
        total == PathsInside(0, 0, m, n, m * n + 1)
    IN  [statistic |-> [num |-> h, den |-> m * n],
         pvalue |-> [num |-> total - PathsInside(0, 0, m, n, h), den |-> total]]

\* Faulty variant of is_drift: a p-value equal to the threshold counts as
\* drift.
is_drift_Inclusive(p_value, threshold) ==
    p_value.num * 100 <= threshold * p_value.den

\* ops.py:406: is_drift = p_value < threshold
is_drift(p_value, threshold) ==
    p_value.num * 100 < threshold * p_value.den

NotAvailable == [num |-> 0, den |-> 0]

\* ops.py:389-411: one row of the report per numeric column of the table
\* that the baseline has too
RECURSIVE DriftRows(_, _, _, _)
DriftRows(columns, curr, base, threshold) ==
    IF columns = <<>> THEN <<>>
    ELSE LET col == curr.cols[Head(columns)].name
             k == ColumnNamed(base.cols, col)
             curr_data == dropna(curr.rows, Head(columns))
             base_data == dropna(base.rows, k)
             ks == ks_2samp(curr_data, base_data)
             rest == DriftRows(Tail(columns), curr, base, threshold)
         IN  IF k = 0 THEN rest
             ELSE IF curr_data = <<>> \/ base_data = <<>>
             THEN <<[column |-> col, test |-> "KS", statistic |-> NotAvailable,
                     p_value |-> NotAvailable, result |-> "Insufficient Data"]>> \o rest
             ELSE <<[column |-> col, test |-> "KS-2Samp", statistic |-> ks.statistic,
                     p_value |-> ks.pvalue,
                     result |-> IF is_drift(ks.pvalue, threshold) THEN "DRIFT" ELSE "OK"]>>
                  \o rest

\* drift_detected (ops.py:380, 408-409): some column tested is_drift
drift_detected(rows) == \E i \in Indexes(rows) : rows[i].result = "DRIFT"

\* ops.py:350-419: the snapshot table is looked up in sqlite_master, both
\* tables are read whole, and the command ends by typer.Exit(1) when the
\* snapshot or the table is missing and when drift is detected
DriftCheck(t, baseline, threshold) ==
    /\ ~Running
    /\ LET snapshot_table == SnapshotTableName(baseline, t)
           cmd == [cmd |-> "drift-check", table |-> t, name |-> baseline,
                   threshold |-> threshold, pc |-> "done", out |-> "",
                   exit |-> ExitFailure, rows |-> <<>>]
           rows == DriftRows(numeric_cols(db[t]), db[t], db[snapshot_table], threshold)
       IN  op' = IF snapshot_table \notin DOMAIN db
                 THEN [cmd EXCEPT !.out = "NotFound"]
                 ELSE IF t \notin DOMAIN db
                 THEN [cmd EXCEPT !.out = "Error"]
                 ELSE IF drift_detected(rows)
                 THEN [cmd EXCEPT !.out = "Drift", !.rows = rows]
                 ELSE [cmd EXCEPT !.out = "ok", !.exit = 0, !.rows = rows]
    /\ UNCHANGED <<db, catalog, txn, origin, calls>>

DriftNext ==
    \/ \E t \in Tables, row \in [1..2 -> Values] : InsertRow(t, row)
    \/ \E t \in Tables, i \in 1..MaxRows : DeleteRow(t, i)
    \/ \E t \in Tables, i \in 1..MaxRows, k \in 1..2, v \in Values : UpdateCell(t, i, k, v)
    \/ \E t \in Tables, n \in Names : Snapshot(t, n)
    \/ SnapshotCopy
    \/ SnapshotCatalogTable
    \/ SnapshotInsert
    \/ SnapshotCommit
    \/ \E t \in Tables, n \in Names, threshold \in Thresholds : DriftCheck(t, n, threshold)

\* snapshot and drift-check over a dataset that changes
DriftSpec == Init /\ [][DriftNext]_vars

-----------------------------------------------------------------------------
(* drift-check of a table whose columns have changed since the snapshot *)

\* a sequence without its k-th element
Without(seq, k) == SubSeq(seq, 1, k - 1) \o SubSeq(seq, k + 1, Len(seq))

\* ALTER TABLE t DROP COLUMN name, by `wi query sql`; it raises for a
\* column of the key
DropColumn(t, name) ==
    /\ ~Running
    /\ t \in DOMAIN db
    /\ LET k == ColumnNamed(db[t].cols, name)
       IN  /\ k # 0
           /\ db[t].cols[k].pk = 0
           /\ db' = [db EXCEPT ![t] =
                        [cols |-> Without(db[t].cols, k),
                         rows |-> [i \in Indexes(db[t].rows) |-> Without(db[t].rows[i], k)]]]
    /\ op' = Command("sql", t, "", FALSE, "done", "ok")
    /\ UNCHANGED <<catalog, txn, origin, calls>>

ColumnNext ==
    \/ \E t \in Tables, v \in Values : InsertRow(t, <<v, v>>)
    \/ \E t \in Tables, i \in 1..MaxRows : DeleteRow(t, i)
    \/ \E t \in Tables : AddColumn(t, "qty", "INTEGER")
    \/ \E t \in Tables, i \in 1..MaxRows, v \in Values : UpdateCell(t, i, 3, v)
    \/ \E t \in Tables : DropColumn(t, "total")
    \/ \E t \in Tables, n \in Names : Snapshot(t, n)
    \/ SnapshotCopy
    \/ SnapshotCatalogTable
    \/ SnapshotInsert
    \/ SnapshotCommit
    \/ \E t \in Tables, n \in Names, threshold \in {DefaultThreshold} :
          DriftCheck(t, n, threshold)

\* snapshot and drift-check between changes of the rows and of the columns
ColumnSpec == Init /\ [][ColumnNext]_vars

-----------------------------------------------------------------------------
(* Snapshots of two tables under names that hold an underscore *)

PairTables == {"c", "b_c"}

\* the snapshots asked for: name "a_b" of table "c", name "a" of table "b_c"
PairRefs == { [table |-> "c", name |-> "a_b"], [table |-> "b_c", name |-> "a"] }

PairInit ==
    /\ db = [t \in PairTables |-> [cols |-> SchemaPkFirst, rows |-> <<>>]]
    /\ catalog = [exists |-> FALSE, rows |-> <<>>]
    /\ txn = <<>>
    /\ op = Command("none", "", "", FALSE, "done", "")
    /\ origin = <<>>
    /\ calls = [c \in Callers |-> Idle]

PairNext ==
    \/ \E t \in PairTables, v \in Values : InsertRow(t, <<v, v>>)
    \/ \E ref \in PairRefs : Snapshot(ref.table, ref.name)
    \/ SnapshotCopy
    \/ SnapshotCatalogTable
    \/ SnapshotInsert
    \/ SnapshotCommit
    \/ \E ref \in PairRefs, dry \in BOOLEAN : Rollback(ref.table, ref.name, dry)
    \/ RollbackDrop
    \/ RollbackCreate
    \/ \E ref \in PairRefs : DriftCheck(ref.table, ref.name, DefaultThreshold)

\* snapshot, rollback and drift-check of two tables
PairSpec == PairInit /\ [][PairNext]_vars

-----------------------------------------------------------------------------
(* Listing the snapshots of a table *)

\* the names snapshots are taken under, one after the other
ListNames == {"pre", "post"}

\* `wi audit list`: audit.py registers the commands log-view, hash-create,
\* hash-verify, export-cert, snapshot, rollback, scan-pii, encrypt-col,
\* decrypt-col and anonymize (audit.py:82-552) and no command that reads
\* _wi_snapshots: the rows are written (audit.py:369-372) and never
\* selected. Asked to list, the program finds no such command, prints no
\* snapshot and runs no statement.
SnapshotList(t) ==
    /\ ~Running
    /\ op' = Command("list", t, "", FALSE, "done", "NoSuchCommand")
    /\ UNCHANGED <<db, catalog, txn, origin, calls>>

ListNext ==
    \/ \E t \in Tables, v \in Values : InsertRow(t, <<v, v>>)
    \/ \E t \in Tables, i \in 1..MaxRows : DeleteRow(t, i)
    \/ \E t \in Tables, n \in ListNames : Snapshot(t, n)
    \/ SnapshotCopy
    \/ SnapshotCatalogTable
    \/ SnapshotInsert
    \/ SnapshotCommit
    \/ \E t \in Tables : SnapshotList(t)

\* snapshots under two names, and the listing of them
ListSpec == Init /\ [][ListNext]_vars

-----------------------------------------------------------------------------
(* hash-create, hash-verify and drift-check run by several callers at a
   time, statement by statement, over a database that no command changes
   meanwhile *)

\* the tables the callers ask for: the datasets and a table that is not
\* in the database
AskedTables == Tables \cup {"ghost"}

ReadSalts == {<<"k">>}
ReadExcludes == {{}, {"total"}}
ReadChunkSizes == {1}
ReadThresholds == {100}

NoTable == [cols |-> <<>>, rows |-> <<>>]

\* The state of one caller's command: `h` is the bytes its hash object has
\* been fed, `cols` the table_info it read, `cursor` the rows of its query
\* not fetched yet, `has_read_data` whether a chunk has been fetched,
\* `curr` and `base` the frames drift-check read, `fingerprint` the digest
\* text it printed (none or one), `rows` the report of drift-check.
ReadCall(cmd, t, pc) ==
    [cmd |-> cmd, table |-> t, pc |-> pc, algo |-> "sha256", salt |-> <<>>,
     exclude |-> {}, chunk_size |-> 1, strict |-> FALSE,
     expected |-> HexText(Failed, 0), name |-> "", threshold |-> 0,
     h |-> <<>>, cols |-> <<>>, cursor |-> <<>>, has_read_data |-> FALSE,
     curr |-> NoTable, base |-> NoTable, out |-> "", exit |-> 0,
     fingerprint |-> <<>>, verdict |-> "none", rows |-> <<>>]

\* Faulty variant of HashUpdate: the commands in flight feed one hash
\* object.
HashUpdate_Shared(c, bytes) ==
    [x \in Callers |->
        IF calls[x].cmd \in {"hash-create", "hash-verify"} /\ calls[x].pc # "done"
        THEN [calls[x] EXCEPT !.h = @ \o bytes]
        ELSE calls[x]]

\* h.update(bytes) (audit.py:181, 237, 247) by the command of caller c: h
\* is a local of the command
HashUpdate(c, bytes) == [calls EXCEPT ![c].h = @ \o bytes]

\* the command of caller c ends by typer.Exit(1)
CallEnded(c, out) ==
    [calls EXCEPT ![c].pc = "done", ![c].out = out, ![c].exit = ExitFailure]

\* audit.py:137-147: the hash object is made and fed the salt
StartHashCreate(c, t, algo, salt, exclude, chunk_size) ==
    /\ calls[c] = Idle
    /\ calls' = [calls EXCEPT ![c] =
                    [ReadCall("hash-create", t, "table_info") EXCEPT
                        !.algo = algo, !.salt = salt, !.h = salt,
                        !.exclude = exclude, !.chunk_size = chunk_size]]
    /\ UNCHANGED <<db, catalog, txn, op, origin>>

\* audit.py:203-217: the algorithm comes from the length of the expected
\* text, and a text of another length ends the command
StartHashVerify(c, t, expected_hash, salt, exclude, chunk_size, strict) ==
    /\ calls[c] = Idle
    /\ LET algo == algo_name(expected_hash)
           call == [ReadCall("hash-verify", t, "table_info") EXCEPT
                       !.algo = algo, !.salt = salt, !.h = salt,
                       !.exclude = exclude, !.chunk_size = chunk_size,
                       !.strict = strict, !.expected = expected_hash]
       IN  calls' = [calls EXCEPT ![c] =
                        IF algo = "invalid"
                        THEN [call EXCEPT !.pc = "done", !.out = "InvalidOptions",
                                          !.exit = ExitFailure, !.h = <<>>]
                        ELSE call]
    /\ UNCHANGED <<db, catalog, txn, op, origin>>

\* audit.py:158-164, 225-231: PRAGMA table_info(table_name)
TableInfo(c) ==
    /\ calls[c].pc = "table_info"
    /\ LET call == calls[c]
       IN  calls' = IF call.table \notin DOMAIN db
                    THEN CallEnded(c, "NotFound")
                    ELSE [calls EXCEPT ![c].cols = db[call.table].cols,
                                       ![c].pc = IF call.strict THEN "ddl" ELSE "select"]
    /\ UNCHANGED <<db, catalog, txn, op, origin>>

\* audit.py:233-237: under --strict the CREATE TABLE text of sqlite_master
\* is fed to the hash; fetchone() gives None when the table is not there
ReadDdl(c) ==
    /\ calls[c].pc = "ddl"
    /\ LET call == calls[c]
       IN  calls' = IF call.table \notin DOMAIN db
                    THEN CallEnded(c, "Error")
                    ELSE [HashUpdate(c, Ddl(call.table, db[call.table]))
                             EXCEPT ![c].pc = "select"]
    /\ UNCHANGED <<db, catalog, txn, op, origin>>

\* audit.py:167-175, 239-245: the SELECT over the columns table_info gave,
\* the excluded ones left out; it raises when no column is left and when
\* the table is not there
Select(c) ==
    /\ calls[c].pc = "select"
    /\ LET call == calls[c]
       IN  calls' = IF \/ call.table \notin DOMAIN db
                       \/ QueryCols(call.cols, call.exclude) = <<>>
                    THEN CallEnded(c, "Error")
                    ELSE [calls EXCEPT
                             ![c].cursor = OrderBy(db[call.table].rows,
                                                   OrderByCols(call.cols, call.exclude)),
                             ![c].pc = "chunk"]
    /\ UNCHANGED <<db, catalog, txn, op, origin>>

\* audit.py:175-181, 245-247: one turn of the loop: the next chunk_size
\* rows of the cursor are serialized and fed to the hash; a query with no
\* row yields one empty chunk
ReadChunk(c) ==
    /\ calls[c].pc = "chunk"
    /\ calls[c].cursor # <<>> \/ ~calls[c].has_read_data
    /\ LET call == calls[c]
           n == IF Len(call.cursor) < call.chunk_size THEN Len(call.cursor)
                ELSE call.chunk_size
           chunk == SubSeq(call.cursor, 1, n)
           chunk_json == ChunkJson(call.cols, chunk, QueryCols(call.cols, call.exclude))
       IN  calls' = [HashUpdate(c, chunk_json) EXCEPT
                        ![c].cursor = SubSeq(call.cursor, n + 1, Len(call.cursor)),
                        ![c].has_read_data = TRUE]
    /\ UNCHANGED <<db, catalog, txn, op, origin>>

\* audit.py:187-189: the loop has ended; hash_create prints the digest of
\* what the hash was fed and returns it
FinishCreate(c) ==
    /\ calls[c].cmd = "hash-create"
    /\ calls[c].pc = "chunk" /\ calls[c].cursor = <<>> /\ calls[c].has_read_data
    /\ calls' = [calls EXCEPT
                    ![c].pc = "done", ![c].out = "ok",
                    ![c].fingerprint = <<hexdigest(Digest(calls[c].algo, calls[c].h))>>]
    /\ UNCHANGED <<db, catalog, txn, op, origin>>

\* audit.py:253-302: hash_verify compares the digest with the expected
\* text
FinishVerify(c) ==
    /\ calls[c].cmd = "hash-verify"
    /\ calls[c].pc = "chunk" /\ calls[c].cursor = <<>> /\ calls[c].has_read_data
    /\ LET calculated == hexdigest(Digest(calls[c].algo, calls[c].h))
       IN  calls' = IF calculated = calls[c].expected
                    THEN [calls EXCEPT ![c].pc = "done", ![c].out = "ok",
                                       ![c].verdict = "verified"]
                    ELSE [CallEnded(c, "Mismatch") EXCEPT
                             ![c].verdict = "failed",
                             ![c].fingerprint = <<calculated>>]
    /\ UNCHANGED <<db, catalog, txn, op, origin>>

\* ops.py:350-360
StartDriftCheck(c, t, baseline, threshold) ==
    /\ calls[c] = Idle
    /\ calls' = [calls EXCEPT ![c] =
                    [ReadCall("drift-check", t, "exists") EXCEPT
                        !.name = baseline, !.threshold = threshold]]
    /\ UNCHANGED <<db, catalog, txn, op, origin>>

\* ops.py:366-368: the snapshot table is looked up in sqlite_master
DriftExists(c) ==
    /\ calls[c].pc = "exists"
    /\ calls' = IF SnapshotTableName(calls[c].name, calls[c].table) \notin DOMAIN db
                THEN CallEnded(c, "NotFound")
                ELSE [calls EXCEPT ![c].pc = "read_curr"]
    /\ UNCHANGED <<db, catalog, txn, op, origin>>

\* ops.py:370: SELECT * FROM table_name, read whole
DriftReadCurr(c) ==
    /\ calls[c].pc = "read_curr"
    /\ calls' = IF calls[c].table \notin DOMAIN db
                THEN CallEnded(c, "Error")
                ELSE [calls EXCEPT ![c].curr = db[calls[c].table],
                                   ![c].pc = "read_base"]
    /\ UNCHANGED <<db, catalog, txn, op, origin>>

\* ops.py:371-419: SELECT * FROM snapshot_table, read whole, and the
\* report over the two frames
DriftReadBase(c) ==
    /\ calls[c].pc = "read_base"
    /\ LET call == calls[c]
           snapshot_table == SnapshotTableName(call.name, call.table)
           base == db[snapshot_table]
           rows == DriftRows(numeric_cols(call.curr), call.curr, base, call.threshold)
       IN  calls' = IF snapshot_table \notin DOMAIN db
                    THEN CallEnded(c, "Error")
                    ELSE IF drift_detected(rows)
                    THEN [CallEnded(c, "Drift") EXCEPT ![c].base = base, ![c].rows = rows]
                    ELSE [calls EXCEPT ![c].pc = "done", ![c].out = "ok",
                                       ![c].base = base, ![c].rows = rows]
    /\ UNCHANGED <<db, catalog, txn, op, origin>>

\* the statements that read the database
ReadingPcs == {"table_info", "ddl", "select", "chunk", "exists", "read_curr", "read_base"}

\* Faulty variant of CallFail: hash_create prints the digest of what the
\* hash was fed before the error.
CallFail_PartialDigest(c) ==
    /\ calls[c].pc \in ReadingPcs
    /\ calls' = IF calls[c].cmd = "hash-create"
                THEN [CallEnded(c, "Error") EXCEPT
                         ![c].fingerprint = <<hexdigest(Digest(calls[c].algo, calls[c].h))>>]
                ELSE CallEnded(c, "Error")
    /\ UNCHANGED <<db, catalog, txn, op, origin>>

\* audit.py:183-185, 249-251, ops.py:373-375: a statement raises (the
\* file cannot be read, the database is locked): the handler prints the
\* error and the command ends by typer.Exit(1)
CallFail(c) ==
    /\ calls[c].pc \in ReadingPcs
    /\ calls' = CallEnded(c, "Error")
    /\ UNCHANGED <<db, catalog, txn, op, origin>>

\* the rows of a dataset before the callers start: at most MaxRows rows
\* with the value of the key in both columns, in scan order
ReadRows(cols) ==
    { rows \in UNION { [1..n -> { <<v, v>> : v \in Values }] : n \in 0..MaxRows } :
        /\ PkUnique(cols, rows)
        /\ ScanOrder(cols, rows) = rows }

\* A database with one dataset and, when `taken`, the snapshot "pre" of it
\* that was made when it held its first row only.
ReadInit ==
    /\ \E cols \in {SchemaPkFirst, SchemaNoPk}, taken \in BOOLEAN :
        \E rows \in ReadRows(cols) :
          LET t == CHOOSE x \in Tables : TRUE
              n == CHOOSE x \in Names : TRUE
              snap == SnapshotTableName(n, t)
              before == [cols |-> cols, rows |-> SubSeq(rows, 1, 1)]
              dataset == [x \in Tables |-> [cols |-> cols, rows |-> rows]]
          IN  IF taken /\ rows # <<>>
              THEN /\ db = (snap :> CreateTableAsSelect(before)) @@ dataset
                   /\ origin = (snap :> [table |-> t, tbl |-> before])
                   /\ catalog = [exists |-> TRUE,
                                 rows |-> <<[name |-> n, original_table |-> t,
                                             snapshot_table |-> snap,
                                             timestamp |-> 1, comment |-> ""]>>]
              ELSE /\ db = dataset
                   /\ origin = <<>>
                   /\ catalog = [exists |-> FALSE, rows |-> <<>>]
    /\ txn = <<>>
    /\ op = Command("none", "", "", FALSE, "done", "")
    /\ calls = [c \in Callers |-> Idle]

\* the texts handed to hash-verify: what hash-create prints for the table
\* as it is, and the digest of no byte
ReadExpected(t, salt, chunk_size) ==
    { HexText(Digest("sha256", <<>>), Sha256HexLen) }
    \cup { hexdigest(hash_create(db, t, "sha256", salt, {}, chunk_size)) }

ReadNext ==
    \/ \E c \in Callers, t \in AskedTables, salt \in ReadSalts,
          exclude \in ReadExcludes, chunk_size \in ReadChunkSizes :
          StartHashCreate(c, t, "sha256", salt, exclude, chunk_size)
    \/ \E c \in Callers, t \in Tables, salt \in ReadSalts,
          chunk_size \in ReadChunkSizes, strict \in BOOLEAN :
          \E expected_hash \in ReadExpected(t, salt, chunk_size) :
              StartHashVerify(c, t, expected_hash, salt, {}, chunk_size, strict)
    \/ \E c \in Callers, t \in Tables, n \in Names, threshold \in ReadThresholds :
          StartDriftCheck(c, t, n, threshold)
    \/ \E c \in Callers : TableInfo(c)
    \/ \E c \in Callers : ReadDdl(c)
    \/ \E c \in Callers : Select(c)
    \/ \E c \in Callers : ReadChunk(c)
    \/ \E c \in Callers : FinishCreate(c)
    \/ \E c \in Callers : FinishVerify(c)
    \/ \E c \in Callers : DriftExists(c)
    \/ \E c \in Callers : DriftReadCurr(c)
    \/ \E c \in Callers : DriftReadBase(c)
    \/ \E c \in Callers : CallFail(c)

\* the read-only commands of the callers, their statements interleaved
ReadSpec == ReadInit /\ [][ReadNext]_vars

-----------------------------------------------------------------------------
(* Properties of the snapshot catalog and of rollback *)

\* the catalog, as any reader sees it, holds an entry for (t, n)
Catalogued(t, n) ==
    \E i \in Indexes(catalog.rows) :
        /\ catalog.rows[i].original_table = t
        /\ catalog.rows[i].name = n

\* the physical copy of snapshot n of t exists
Copied(t, n) == SnapshotTableName(n, t) \in DOMAIN db

\* the last command was a non-dry-run rollback that ran to its end
RolledBack ==
    /\ op.cmd = "rollback" /\ ~op.dry_run
    /\ op.pc = "done" /\ op.out = "ok"

\* every fingerprint of table t in database d: what hash-create prints and
\* what hash-verify calculates, per option set
Fingerprints(d, t) ==
    [algo \in Algos, salt \in Salts, exclude \in Excludes, chunk_size \in ChunkSizes |->
        <<hash_create(d, t, algo, salt, exclude, chunk_size),
          calculated_hash(d, t, algo, salt, exclude, chunk_size, FALSE),
          calculated_hash(d, t, algo, salt, exclude, chunk_size, TRUE)>>]

\* C1: a create that failed leaves neither a physical copy nor a catalog
\* entry for (T, name): never a copy without its entry, never an entry
\* without its copy.
C1_CreateAllOrNothing ==
    (op.cmd = "snapshot" /\ op.pc = "done" /\ op.out = "Error")
        => /\ ~Copied(op.table, op.name)
           /\ ~Catalogued(op.table, op.name)

\* C2: every step of a non-dry-run rollback of T, the step at which it
\* fails included, leaves T existing, with the rows it had before the step
\* or with the rows of the snapshot: T is never dropped and not recreated.
C2_RollbackKeepsTable ==
    [][(/\ op'.cmd = "rollback" /\ ~op'.dry_run
        /\ Catalogued(op'.table, op'.name)
        /\ op'.table \in DOMAIN db)
          => /\ op'.table \in DOMAIN db'
             /\ \/ db'[op'.table].rows = db[op'.table].rows
                \/ /\ Copied(op'.table, op'.name)
                   /\ db'[op'.table].rows = db[SnapshotTableName(op'.name, op'.table)].rows]_vars

\* C3: after a successful non-dry-run rollback of T from a snapshot, the
\* rows of T are exactly the rows T had when the snapshot was created,
\* whatever happened to T in between.
C3_RollbackRestoresRows ==
    RolledBack =>
        LET snap == SnapshotTableName(op.name, op.table)
        IN  /\ op.table \in DOMAIN db
            /\ snap \in DOMAIN origin
            /\ origin[snap].table = op.table
            /\ db[op.table].rows = origin[snap].tbl.rows

\* C3 witness: a rollback restored two rows to a table that had been
\* changed since the snapshot
C3_Witness ==
    /\ RolledBack
    /\ ~op.immediate
    /\ Len(db[op.table].rows) = 2

\* C4: create(T, s) followed immediately by rollback(T, s) leaves every
\* fingerprint of T, under every option set, strict or not, equal to the
\* fingerprint T had before the two commands.
C4_RestoreKeepsFingerprint ==
    (RolledBack /\ op.immediate /\ Catalogued(op.table, op.name)) =>
        Fingerprints(db, op.table)
            = Fingerprints(op.table :> origin[SnapshotTableName(op.name, op.table)].tbl,
                           op.table)

\* C5: create(T, s) called while snapshot (T, s) is catalogued ends with
\* AlreadyExists at once and changes neither a table nor the catalog.
C5_SecondCreateFails ==
    [][(~Running /\ op'.cmd = "snapshot" /\ Catalogued(op'.table, op'.name))
          => /\ op'.pc = "done" /\ op'.out = "AlreadyExists"
             /\ db' = db /\ catalog' = catalog /\ txn' = txn]_vars

\* C5 witness: a create was refused for a catalogued snapshot of a table
\* that holds rows
C5_Witness ==
    /\ op.cmd = "snapshot" /\ op.out = "AlreadyExists"
    /\ Catalogued(op.table, op.name)
    /\ op.table \in DOMAIN db
    /\ db[op.table].rows # <<>>

\* C6: the catalog holds at most one entry per (source_table, name).
C6_CatalogUnique ==
    \A i, j \in Indexes(catalog.rows) :
        (/\ catalog.rows[i].original_table = catalog.rows[j].original_table
         /\ catalog.rows[i].name = catalog.rows[j].name) => i = j

\* C6 witness: a create of a catalogued snapshot has been tried again and
\* has ended
C6_Witness ==
    /\ catalog.rows # <<>>
    /\ op.cmd = "snapshot" /\ op.pc = "done"
    /\ op.out # "ok"

\* C7: every catalog entry a reader can see references a snapshot table
\* that exists and holds all the rows the source had when it was copied.
C7_EntryHasCompleteCopy ==
    \A i \in Indexes(catalog.rows) :
        LET e == catalog.rows[i]
        IN  /\ e.snapshot_table \in DOMAIN db
            /\ e.snapshot_table \in DOMAIN origin
            /\ origin[e.snapshot_table].table = e.original_table
            /\ db[e.snapshot_table].rows = origin[e.snapshot_table].tbl.rows

\* C7 witness: a catalogued snapshot of two rows while a later command is
\* in flight
C7_Witness ==
    /\ catalog.rows # <<>>
    /\ Len(db[catalog.rows[1].snapshot_table].rows) = 2
    /\ Running

\* C8: a snapshot table that exists stays, with the same contents, over
\* every step of every command.
C8_SnapshotImmutable ==
    [][\A t \in Tables, n \in Names :
          Copied(t, n) =>
              /\ SnapshotTableName(n, t) \in DOMAIN db'
              /\ db'[SnapshotTableName(n, t)] = db[SnapshotTableName(n, t)]]_vars

\* C8 witness: after a non-dry-run rollback the table has been changed
\* again and differs from the snapshot, which is catalogued
C8_Witness ==
    /\ op.cmd = "sql"
    /\ \E t \in Tables, n \in Names :
          /\ Catalogued(t, n) /\ Copied(t, n)
          /\ t \in DOMAIN db
          /\ db[t].cols = CreateTableAsSelect(origin[SnapshotTableName(n, t)].tbl).cols
          /\ db[t].cols # origin[SnapshotTableName(n, t)].tbl.cols
          /\ db[t].rows # db[SnapshotTableName(n, t)].rows

\* C9: a dry-run rollback changes neither a table nor the catalog, and,
\* when the table and the snapshot exist, reports the row count of each.
C9_DryRunReadsOnly ==
    [][(op'.cmd = "rollback" /\ op'.dry_run)
          => /\ db' = db /\ catalog' = catalog /\ txn' = txn
             /\ op'.pc = "done"
             /\ (Copied(op'.table, op'.name) /\ op'.table \in DOMAIN db)
                   => /\ op'.out = "ok"
                      /\ op'.report = <<Len(db[op'.table].rows),
                                        Len(db[SnapshotTableName(op'.name, op'.table)].rows)>>]_vars

\* C9 witness: a dry run reported two current rows against one snapshot row
C9_Witness ==
    /\ op.cmd = "rollback" /\ op.dry_run
    /\ op.out = "ok"
    /\ op.report = <<2, 1>>

\* C10: rollback of (table, snapshot_name) ends with NotFound whenever the
\* catalog holds no entry for the pair, and changes no table.
C10_RollbackNotFound ==
    [][(~Running /\ op'.cmd = "rollback" /\ ~Catalogued(op'.table, op'.name))
          => /\ op'.pc = "done" /\ op'.out = "NotFound"
             /\ db' = db]_vars

-----------------------------------------------------------------------------
(* Properties of the fingerprint *)

\* C11: hash-verify, given the fingerprint hash-create prints for the
\* unchanged table under the same salt, excluded columns and chunk size
\* (either algorithm), reports a match, with --strict and without.
C11_VerifyRoundTrip ==
    (/\ op.cmd = "hash-verify"
     /\ op.table \in DOMAIN db
     /\ \E algo \in Algos :
           LET fingerprint == hash_create(db, op.table, algo, op.salt,
                                          op.exclude, op.chunk_size)
           IN  fingerprint # Failed /\ op.expected = hexdigest(fingerprint))
        => op.verdict = "verified"

\* the arrangements in which the engine may hold the rows of a table: the
\* same rows inserted in any order, in the scan order of the table
Arrangements(tbl) ==
    { ScanOrder(tbl.cols, [i \in Indexes(tbl.rows) |-> tbl.rows[p[i]]]) :
        p \in Permutations(Indexes(tbl.rows)) }

\* C12: the fingerprint hash-create prints is the one it prints for every
\* arrangement of the same rows in the table: the row multiset, the schema
\* and the options determine it, rows that tie on the sort key included.
C12_RowOrderDetermined ==
    (op.cmd = "hash-create" /\ op.out = "ok") =>
        \A rows \in Arrangements(db[op.table]) :
            hexdigest(hash_create([db EXCEPT ![op.table].rows = rows], op.table,
                                  op.algo, op.salt, op.exclude, op.chunk_size))
                = op.fingerprint[1]

\* the step is an UPDATE of one cell of column k of table t
CellUpdated(t, k) ==
    /\ t \in DOMAIN db
    /\ k \in Indexes(db[t].cols)
    /\ \E i \in Indexes(db[t].rows), v \in NullableValues \cup {3} :
          /\ v # db[t].rows[i][k]
          /\ db' = [db EXCEPT ![t].rows =
                       ScanOrder(db[t].cols, [db[t].rows EXCEPT ![i][k] = v])]

\* C13: an update of one cell changes the fingerprint when the column of
\* the cell is not excluded, and leaves it the same when it is excluded,
\* key column or not.
C13_Sensitivity ==
    [][\A t \in Tables, k \in 1..2 :
          CellUpdated(t, k) =>
              \A algo \in Algos, salt \in Salts, exclude \in Excludes,
                 chunk_size \in ChunkSizes :
                  LET before == hash_create(db, t, algo, salt, exclude, chunk_size)
                      after == hash_create(db', t, algo, salt, exclude, chunk_size)
                  IN  IF db[t].cols[k].name \in exclude THEN after = before
                      ELSE after # before]_vars

\* C14: ALTER TABLE .. ADD COLUMN, which changes no value of the rows,
\* changes the digest calculated under --strict and leaves the digest
\* calculated without it, and the fingerprint hash-create prints, the same.
C14_StrictSeesSchema ==
    [][\A t \in Tables :
          (t \in DOMAIN db /\ db' = [db EXCEPT ![t] = AddedColumn(db[t], "note", "TEXT")]) =>
              \A algo \in Algos, salt \in Salts, exclude \in Excludes,
                 chunk_size \in ChunkSizes :
                  /\ calculated_hash(db', t, algo, salt, exclude, chunk_size, TRUE)
                        # calculated_hash(db, t, algo, salt, exclude, chunk_size, TRUE)
                  /\ calculated_hash(db', t, algo, salt, exclude, chunk_size, FALSE)
                        = calculated_hash(db, t, algo, salt, exclude, chunk_size, FALSE)
                  /\ hash_create(db', t, algo, salt, exclude, chunk_size)
                        = hash_create(db, t, algo, salt, exclude, chunk_size)]_vars

\* salts to compare a fingerprint's salt with
OtherSalts == Salts \cup {<<"k", "k">>, <<"{columns:">>}

\* C15: over the same table and the same other options, hash-create with
\* another salt gives another fingerprint, and so does hash-verify's
\* calculation, strict or not; the bytes fed to the hash begin with the
\* salt, the schema and the rows come after it.
C15_SaltSeparates ==
    (op.cmd = "hash-create" /\ op.out = "ok") =>
        LET digest == op.fingerprint[1].digest
            tbl == db[op.table]
        IN  /\ digest.stream = op.salt \o RowStream(tbl, op.exclude, op.chunk_size)
            /\ \A salt \in OtherSalts :
                  /\ (hash_create(db, op.table, op.algo, salt, op.exclude, op.chunk_size)
                         = digest) <=> (salt = op.salt)
                  /\ \A strict \in BOOLEAN :
                        LET one == calculated_hash(db, op.table, op.algo, op.salt,
                                                   op.exclude, op.chunk_size, strict)
                            other == calculated_hash(db, op.table, op.algo, salt,
                                                     op.exclude, op.chunk_size, strict)
                        IN  /\ (one = other) <=> (salt = op.salt)
                            /\ SubSeq(other.stream, 1, Len(salt)) = salt
                            /\ strict =>
                                  other.stream = salt \o Ddl(op.table, tbl)
                                                 \o RowStream(tbl, op.exclude, op.chunk_size)

\* C15 witness: a salted fingerprint of a table of two rows
C15_Witness ==
    /\ op.cmd = "hash-create" /\ op.out = "ok"
    /\ op.salt # <<>>
    /\ Len(db[op.table].rows) = 2

\* C16: a hash-verify that finds the digests different prints the digest
\* it calculated and does not end by the exit the errors end by.
C16_MismatchIsNoFailure ==
    (op.cmd = "hash-verify" /\ op.verdict = "failed") =>
        /\ op.fingerprint # <<>>
        /\ op.exit # ExitFailure

\* C17: hash-verify calculates with sha256 for an expected text of 64
\* characters and with sha512 for one of 128; for a text of any other
\* length it ends by the exit of an error, having run no statement on the
\* database and reported neither a match nor a mismatch.
C17_AlgorithmFromLength ==
    op.cmd = "hash-verify" =>
        /\ op.expected.len = Sha256HexLen => op.algo = "sha256"
        /\ op.expected.len = Sha512HexLen => op.algo = "sha512"
        /\ op.expected.len \notin {Sha256HexLen, Sha512HexLen} =>
              /\ op.out = "InvalidOptions" /\ op.exit = ExitFailure
              /\ op.read = <<>>
              /\ op.verdict = "none" /\ op.fingerprint = <<>>

\* C17 witness: a text of 63 characters was refused over a table of two rows
C17_Witness ==
    /\ op.cmd = "hash-verify" /\ op.out = "InvalidOptions"
    /\ op.expected.len = Sha256HexLen - 1
    /\ op.table \in DOMAIN db
    /\ Len(db[op.table].rows) = 2

\* the key columns in the order PRIMARY KEY (..) declares them: by the rank
\* table_info gives them
RECURSIVE DeclaredKey(_, _)
DeclaredKey(cols, rank) ==
    IF \E k \in Indexes(cols) : cols[k].pk = rank
    THEN <<CHOOSE k \in Indexes(cols) : cols[k].pk = rank>> \o DeclaredKey(cols, rank + 1)
    ELSE <<>>

\* C23: the rows hash-create serializes are sorted by the key columns in
\* the order the key declares them when the table has a key, and by the
\* selected columns in the order of the columns otherwise.
C23_DeclaredKeyOrder ==
    (op.cmd = "hash-create" /\ op.out = "ok") =>
        LET tbl == db[op.table]
            keys == IF PkIndexes(tbl.cols) # {} THEN DeclaredKey(tbl.cols, 1)
                    ELSE QueryCols(tbl.cols, op.exclude)
        IN  op.fingerprint[1].digest.stream
                = op.salt \o ChunksJson(tbl.cols, OrderBy(tbl.rows, keys),
                                        QueryCols(tbl.cols, op.exclude), op.chunk_size)

\* C29: the fingerprint hash-create prints for a table is the one it
\* prints for the table of the same schema whose rows were inserted in
\* the reverse order.
C29_InsertionOrderFree ==
    (op.cmd = "hash-create" /\ op.out = "ok") =>
        LET tbl == db[op.table]
            reversed == ScanOrder(tbl.cols, Reverse(tbl.rows))
        IN  <<hexdigest(hash_create([db EXCEPT ![op.table].rows = reversed], op.table,
                                    op.algo, op.salt, op.exclude, op.chunk_size))>>
                = op.fingerprint

\* C30: the fingerprint hash-create prints is the one it yields under
\* every other chunk size, and the one hash-verify calculates under every
\* chunk size.
C30_ChunkSizeFree ==
    (op.cmd = "hash-create" /\ op.out = "ok") =>
        \A chunk_size \in ChunkSizes :
            /\ <<hexdigest(hash_create(db, op.table, op.algo, op.salt, op.exclude,
                                        chunk_size))>> = op.fingerprint
            /\ <<hexdigest(calculated_hash(db, op.table, op.algo, op.salt, op.exclude,
                                            chunk_size, FALSE))>> = op.fingerprint

-----------------------------------------------------------------------------
(* Properties of the commands of concurrent callers *)

\* the digest hash_create yields for the options of a call, computed in
\* one go over the database as it is
WholeDigest(call) ==
    hash_create(db, call.table, call.algo, call.salt, call.exclude, call.chunk_size)

\* a hash-create that ended by an error after it had fed the hash some
\* chunk and before it had fetched every row
FailedPartWay(call) ==
    /\ call.cmd = "hash-create" /\ call.pc = "done" /\ call.out = "Error"
    /\ call.has_read_data /\ call.cursor # <<>>

\* C18: a hash-create of a table that is not in the database, and one whose
\* reading raises an error at any statement, some chunks read or none, ends
\* by the exit of an error and prints no fingerprint; the only digest a
\* hash-create ever prints is the digest of the whole table.
C18_NoPartialDigest ==
    \A c \in Callers :
        calls[c].cmd = "hash-create" =>
            LET call == calls[c]
            IN  /\ call.out # "ok" => call.fingerprint = <<>>
                /\ (call.pc = "done" /\ call.out # "ok") => call.exit = ExitFailure
                /\ (call.pc = "done" /\ call.table \notin DOMAIN db) =>
                       call.out \in {"NotFound", "Error"}
                /\ call.fingerprint # <<>> =>
                       /\ call.cursor = <<>>
                       /\ WholeDigest(call) # Failed
                       /\ call.fingerprint = <<hexdigest(WholeDigest(call))>>

\* one caller's hash-create has failed part-way through the chunks and the
\* other's has found no table
C18_Witness ==
    \E c1, c2 \in Callers :
        /\ FailedPartWay(calls[c1])
        /\ calls[c1].h # calls[c1].salt
        /\ calls[c2].cmd = "hash-create" /\ calls[c2].out = "NotFound"

\* what the commands that have ended report, in the state with calls cs
\* over database d: hash-creates of the same table under the same options
\* have printed the same fingerprint, the one a command running alone
\* prints, and a hash-verify has reported what a command running alone
\* reports
Agreeing(cs, d) ==
    /\ \A c1, c2 \in Callers :
          ( /\ cs[c1].cmd = "hash-create" /\ cs[c1].out = "ok"
            /\ cs[c2].cmd = "hash-create" /\ cs[c2].out = "ok"
            /\ cs[c1].table = cs[c2].table /\ cs[c1].algo = cs[c2].algo
            /\ cs[c1].salt = cs[c2].salt /\ cs[c1].exclude = cs[c2].exclude
            /\ cs[c1].chunk_size = cs[c2].chunk_size )
          => cs[c1].fingerprint = cs[c2].fingerprint
    /\ \A c \in Callers :
          /\ (cs[c].cmd = "hash-create" /\ cs[c].out = "ok") =>
                cs[c].fingerprint =
                    <<hexdigest(hash_create(d, cs[c].table, cs[c].algo, cs[c].salt,
                                            cs[c].exclude, cs[c].chunk_size))>>
          /\ (cs[c].cmd = "hash-verify" /\ cs[c].verdict # "none") =>
                LET calculated ==
                        hexdigest(calculated_hash(d, cs[c].table, cs[c].algo, cs[c].salt,
                                                  cs[c].exclude, cs[c].chunk_size,
                                                  cs[c].strict))
                IN  (cs[c].verdict = "verified") <=> (calculated = cs[c].expected)

\* C19: whichever way the statements of the callers' hash-create,
\* hash-verify and drift-check are interleaved, no statement changes a
\* table of the database (the datasets and the snapshot copies) or the
\* catalog, and the hash-creates of one table under the same options all
\* print the same fingerprint.
C19_ReadersAgree ==
    [][ /\ db' = db
        /\ catalog' = catalog
        /\ txn' = txn
        /\ Agreeing(calls', db') ]_vars

\* both callers have printed the fingerprint of a table of two rows, of
\* which there is a snapshot, under the same options
C19_Witness ==
    /\ \A c \in Callers : calls[c].cmd = "hash-create" /\ calls[c].out = "ok"
    /\ \A c1, c2 \in Callers :
          /\ calls[c1].table = calls[c2].table
          /\ calls[c1].exclude = calls[c2].exclude
          /\ calls[c1].fingerprint = calls[c2].fingerprint
          /\ Len(db[calls[c1].table].rows) = 2
    /\ \E snap \in DOMAIN db : snap \notin Tables

-----------------------------------------------------------------------------
(* Properties of drift-check *)

\* C20: each row of the report that carries a test says DRIFT exactly when
\* its p-value is less than the threshold and OK otherwise, and the command
\* reports drift exactly when some row says DRIFT.
C20_DriftVerdicts ==
    (op.cmd = "drift-check" /\ op.out \in {"ok", "Drift"}) =>
        /\ \A i \in Indexes(op.rows) :
              LET r == op.rows[i]
              IN  r.test = "KS-2Samp" =>
                    /\ r.result \in {"DRIFT", "OK"}
                    /\ r.result = "DRIFT"
                          <=> r.p_value.num * 100 < op.threshold * r.p_value.den
        /\ op.out = "Drift" <=> \E i \in Indexes(op.rows) : op.rows[i].result = "DRIFT"
        /\ op.out = "Drift" <=> op.exit = ExitFailure

\* C20 witness: a report of two tested columns, one DRIFT and one OK
C20_Witness ==
    /\ op.cmd = "drift-check" /\ op.out = "Drift"
    /\ \E i, j \in Indexes(op.rows) :
          /\ op.rows[i].result = "DRIFT"
          /\ op.rows[j].result = "OK"

\* the snapshot the last drift-check compared with was copied from the
\* table as the table is now
SnapshotOfNow ==
    LET snap == SnapshotTableName(op.name, op.table)
    IN  /\ op.cmd = "drift-check" /\ op.out \in {"ok", "Drift"}
        /\ snap \in DOMAIN origin
        /\ origin[snap].table = op.table
        /\ origin[snap].tbl = db[op.table]

\* C21: a drift-check at threshold 0.05 of a table against a snapshot of
\* the table as it is now reports no DRIFT: every column tested has
\* statistic 0 and p-value 1, and the command ends without drift.
C21_SelfComparison ==
    (SnapshotOfNow /\ op.threshold = DefaultThreshold) =>
        /\ op.out = "ok"
        /\ \A i \in Indexes(op.rows) :
              /\ op.rows[i].result # "DRIFT"
              /\ op.rows[i].test = "KS-2Samp" =>
                    /\ op.rows[i].statistic.num = 0
                    /\ op.rows[i].p_value.num = op.rows[i].p_value.den

\* C21 witness: the self-comparison of a table of two rows has tested both
\* columns
C21_Witness ==
    /\ SnapshotOfNow /\ op.threshold = DefaultThreshold
    /\ Len(db[op.table].rows) = 2
    /\ Len(op.rows) = 2
    /\ \A i \in Indexes(op.rows) : op.rows[i].result = "OK"

\* the rows of the report of the last drift-check that are about the
\* column named col
ReportOf(col) == SelectSeq(op.rows, LAMBDA r : r.column = col)

\* the last drift-check has read the table and the snapshot
Compared == op.cmd = "drift-check" /\ op.out \in {"ok", "Drift"}

\* C24: in the report of a drift-check, a column of the table that the
\* snapshot has too, and that has no value other than NULL in the table or
\* in the snapshot, has one row, which says Insufficient Data and carries
\* no statistic and no p-value.
C24_InsufficientData ==
    Compared =>
        LET curr == db[op.table]
            base == db[SnapshotTableName(op.name, op.table)]
        IN  \A k \in Indexes(curr.cols) :
              LET col == curr.cols[k].name
                  b == ColumnNamed(base.cols, col)
              IN  (b # 0 /\ (dropna(curr.rows, k) = <<>> \/ dropna(base.rows, b) = <<>>)) =>
                     /\ Len(ReportOf(col)) = 1
                     /\ ReportOf(col)[1].result = "Insufficient Data"
                     /\ ReportOf(col)[1].statistic = NotAvailable
                     /\ ReportOf(col)[1].p_value = NotAvailable

\* the names of the columns of a table
ColumnNames(tbl) == { tbl.cols[k].name : k \in Indexes(tbl.cols) }

\* the columns of curr that base has too and that hold a number in both
NumericInBoth(curr, base) ==
    { curr.cols[k].name : k \in { i \in Indexes(curr.cols) :
        /\ curr.cols[i].name \in ColumnNames(base)
        /\ dropna(curr.rows, i) # <<>>
        /\ dropna(base.rows, ColumnNamed(base.cols, curr.cols[i].name)) # <<>> } }

-----------------------------------------------------------------------------
(* Properties of rollback: the schema and the retry *)

\* C27: after a successful non-dry-run rollback the columns of the table,
\* their types and the key are those the table had when the snapshot was
\* copied from it, and so is the text of its CREATE TABLE statement.
C27_RollbackKeepsSchema ==
    RolledBack =>
        LET snap == SnapshotTableName(op.name, op.table)
        IN  /\ db[op.table].cols = origin[snap].tbl.cols
            /\ Ddl(op.table, db[op.table]) = Ddl(op.table, origin[snap].tbl)

\* C28: the statements of a non-dry-run rollback whose snapshot is
\* catalogued succeed whether the table is there or not (as after a rollback that was
\* interrupted after its DROP TABLE): the drop step goes on to the create
\* step, and the create step ends the command with the table holding the
\* rows of the snapshot.
C28_RetryRestores ==
    [][ /\ (RollbackDrop /\ Catalogued(op.table, op.name)) => op'.pc = "create"
        /\ (RollbackCreate /\ Catalogued(op.table, op.name)) =>
              /\ op'.out = "ok"
              /\ op.table \in DOMAIN db'
              /\ db'[op.table].rows = db[SnapshotTableName(op.name, op.table)].rows ]_vars

-----------------------------------------------------------------------------
(* Properties of the snapshot tables of several tables *)

\* the snapshot table the last command looked up was copied from the table
\* the command names
OwnSnapshot ==
    LET snap == SnapshotTableName(op.name, op.table)
    IN  snap \in DOMAIN origin /\ origin[snap].table = op.table

\* C26: a snapshot is rejected as existing only when the snapshot table
\* it found was copied from its own table under its own name, and a
\* rollback that restores, a dry run that reports and a drift-check that
\* compares have read a snapshot table copied from their own table.
C26_PairsApart ==
    /\ (op.cmd = "snapshot" /\ op.out = "AlreadyExists") => OwnSnapshot
    /\ (op.cmd = "rollback" /\ op.out = "ok") => OwnSnapshot
    /\ (op.cmd = "drift-check" /\ op.out \in {"ok", "Drift"}) => OwnSnapshot

-----------------------------------------------------------------------------
(* Properties of the listing *)

\* the catalogued snapshots of table t, the most recent first: the rows of
\* the catalog are in the order of their timestamps
MostRecentFirst(t) ==
    LET OfTable(row) == row.original_table = t
    IN  Reverse(SelectSeq(catalog.rows, OfTable))

\* C22: a listing of the snapshots of a table gives the snapshots
\* catalogued for the table, the most recent first.
C22_ListMostRecentFirst ==
    op.cmd = "list" => op.report = MostRecentFirst(op.table)

====
